---- MODULE Spec2Model ----
(***************************************************************************)
(* On-screen piano: the note-triggering / audio-voice-lifecycle engine      *)
(* (AudioEngine) and the input coordinator (PianoUI) of src/script.js.      *)
(*                                                                          *)
(* Time is the audio clock ctx.currentTime in units of 10 ms.  Amplitudes   *)
(* are in thousandths.  An oscillator and its gain node are created in      *)
(* pairs, so oscs[i] and gains[i] are the pair allocated by the i-th        *)
(* playTone.                                                                *)
(*                                                                          *)
(* The offline-cache service worker of src/unnamed/part_000 is modelled     *)
(* next to the page: its lifecycle state, the origin's CacheStorage and the *)
(* answer to the last fetch event.                                          *)
(***************************************************************************)
EXTENDS Integers, Sequences, FiniteSets, TLC

\* ---------------------------------------------------------------- bounds
MaxNodes  == 2    \* oscillator/gain pairs created in one run
MaxTime   == 10   \* last value of the audio clock that is explored
MaxTarget == 2    \* pointer and touch events aim at rendered keys 1..MaxTarget
MaxTouch  == 2    \* touch identifiers 0..MaxTouch-1
MaxPhys   == 3    \* physical keys used: the first MaxPhys of PhysOrder
MaxBatch  == 2    \* touch points reported by one touch event
MaxOld    == 3    \* cache generations left behind by earlier versions

\* ------------------------------------------------------ program constants
AttackTime    == 2      \* 0.02 s
DecayTime     == 50     \* 0.5 s
ReleaseTime   == 10     \* 0.1 s
FullLevel     == 1000   \* 1
SustainLevel  == 500    \* 0.5
SilenceLevel  == 1      \* 0.001
InitialVolume == 5      \* 0.5, in tenths
numKeys       == 13
MinOctave     == 1
MaxOctave     == 7
StartOctave   == 4
A4Index       == 9
A4Hz          == 440
TickStep      == 10     \* the clock is observed every 100 ms

NOTES == <<"C", "C#", "D", "D#", "E", "F", "F#", "G", "G#", "A", "A#", "B">>

\* KEY_MAP of the source, as a set of <<physical key, note base>> pairs
KEY_MAP ==
    { <<"a", "C">>, <<"w", "C#">>, <<"s", "D">>, <<"e", "D#">>, <<"d", "E">>,
      <<"f", "F">>, <<"t", "F#">>, <<"g", "G">>, <<"y", "G#">>, <<"h", "A">>,
      <<"u", "A#">>, <<"j", "B">>, <<"k", "C2">> }

\* the service worker's CACHE_NAME and urlsToCache
CACHE_NAME  == "my-pwa-cache-v1"
urlsToCache == << "/", "index.html", "icon-72.png", "icon-192.png" >>

NoStop       == -1      \* osc.stop was never called on the node
CurrentValue == -2      \* gain.gain.value as read at the time of the call
NoKey        == 0       \* an event target that is not a rendered key
NoTouch      == "none"  \* key.dataset.touchId is absent
Undefined    == "undefined"   \* KEY_MAP lookup of an unmapped key

VARIABLES
    oscillators,   \* AudioEngine.oscillators : identity -> [osc, gain]
    oscs,          \* every OscillatorNode created so far
    gains,         \* every per-voice GainNode created so far
    ctxState,      \* AudioContext.state
    resuming,      \* ctx.resume() was called and has not yet settled
    masterVolume,  \* masterGain.gain, in tenths
    now,           \* ctx.currentTime
    octave,        \* PianoUI.octave
    readout,       \* text of #current-octave
    keys,          \* the key elements under #piano, in DOM order
    isDragging,    \* PianoUI.isDragging
    buttonDown,    \* environment: the mouse button is held
    pointerAt,     \* environment: rendered key under the pointer, or NoKey
    touches,       \* environment: touch id -> "up" | "nokey" | identity at start
    physical,      \* environment: physical key -> [down, ident, triggers]
    calls,         \* history: what the last handler did (engine calls, tag writes)
    swState,       \* ServiceWorker.state of this version of the worker
    caches,        \* CacheStorage of the origin : cache name -> set of request urls
    cacheNames,    \* activate: the names caches.keys() resolved to
    deleting,      \* activate: caches.delete(name) promises not yet settled
    response       \* fetch: what respondWith was last given

pageVars == << oscillators, oscs, gains, ctxState, resuming, masterVolume, now,
               octave, readout, keys, isDragging, buttonDown, pointerAt, touches,
               physical, calls >>

workerVars == << swState, caches, cacheNames, deleting, response >>

vars == << pageVars, workerVars >>

\* ------------------------------------------------------------ conversions
\* String(n) for a small non-negative integer, as stored in a dataset
String(n) == ToString(n)

\* parseInt of a string that String produced
parseInt(s) == CHOOSE n \in 0 .. 9 : String(n) = s

\* e.key.toLowerCase() over the letters the model types
Lowers == <<"a", "w", "s", "e", "d", "f", "t", "g", "y", "h", "u", "j", "k", "z">>
Uppers == <<"A", "W", "S", "E", "D", "F", "T", "G", "Y", "H", "U", "J", "K", "Z">>
toLowerCase(s) ==
    IF \E i \in 1 .. Len(Uppers) : Uppers[i] = s
    THEN Lowers[CHOOSE i \in 1 .. Len(Uppers) : Uppers[i] = s]
    ELSE s

toUpperCase(s) ==
    IF \E i \in 1 .. Len(Lowers) : Lowers[i] = s
    THEN Uppers[CHOOSE i \in 1 .. Len(Lowers) : Lowers[i] = s]
    ELSE s

\* KEY_MAP[k]
KeyMapLookup(k) ==
    IF \E p \in KEY_MAP : p[1] = k
    THEN (CHOOSE p \in KEY_MAP : p[1] = k)[2]
    ELSE Undefined

\* NOTES.indexOf(note), zero-based
indexOf(note) ==
    IF \E i \in 1 .. Len(NOTES) : NOTES[i] = note
    THEN (CHOOSE i \in 1 .. Len(NOTES) : NOTES[i] = note) - 1
    ELSE -1

\* the template literal `${note}${octave}`
Identity(note, oct) == note \o String(oct)

\* the value of the volume slider (a string) coerced to a number, in tenths
SliderValues == {"0.5", "1"}
ToNumber(s) == IF s = "0" THEN 0 ELSE IF s = "0.5" THEN 5 ELSE 10

\* --------------------------------------------------------------- engine
\* The engine operators work on a record of the fields a handler can change:
\*   oscillators, oscs, gains, ctxState, resuming, keys, calls

Remove(f, k) == [x \in (DOMAIN f) \ {k} |-> f[x]]
Put(f, k, v) == [x \in (DOMAIN f) \cup {k} |-> IF x = k THEN v ELSE f[x]]

\* AudioParam.cancelScheduledValues(t): drop the events at or after t
cancelScheduledValues(events, t) == SelectSeq(events, LAMBDA ev : ev.time < t)

\* a step of a handler that is no engine call
Note(st, what, identity) ==
    [st EXCEPT !.calls = Append(@, [op |-> what, note |-> identity, live |-> FALSE])]

Log(st, op, note) ==
    Append(st.calls, [op |-> op, note |-> note,
                      live |-> note \in DOMAIN st.oscillators])

\* stopTone as it would be without the guard of line 36: destructuring the
\* missing entry raises a TypeError
stopToneUnguarded(st, note, t) ==
    LET logged == [st EXCEPT !.calls = Log(st, "stopTone", note)]
    IN  IF note \in DOMAIN st.oscillators
        THEN LET v  == st.oscillators[note]
                 ev == cancelScheduledValues(st.gains[v.gain].events, t)
                       \o << [kind |-> "set",  value |-> CurrentValue, time |-> t],
                             [kind |-> "exp",  value |-> SilenceLevel,
                              time |-> t + ReleaseTime] >>
             IN  [logged EXCEPT
                    !.gains[v.gain].events = ev,
                    !.oscs[v.osc].stopAt   = t + ReleaseTime,
                    !.oscs[v.osc].stops    = @ + 1,
                    !.oscillators          = Remove(st.oscillators, note)]
        ELSE [logged EXCEPT !.calls = Append(@, [op |-> "TypeError", note |-> note,
                                                  live |-> FALSE])]

\* stopTone as it would be without the delete of line 45
stopToneKeepsEntry(st, note, t) ==
    LET logged == [st EXCEPT !.calls = Log(st, "stopTone", note)]
    IN  IF note \in DOMAIN st.oscillators
        THEN LET v  == st.oscillators[note]
                 ev == cancelScheduledValues(st.gains[v.gain].events, t)
                       \o << [kind |-> "set",  value |-> CurrentValue, time |-> t],
                             [kind |-> "exp",  value |-> SilenceLevel,
                              time |-> t + ReleaseTime] >>
             IN  [logged EXCEPT
                    !.gains[v.gain].events = ev,
                    !.oscs[v.osc].stopAt   = t + ReleaseTime,
                    !.oscs[v.osc].stops    = @ + 1]
        ELSE logged

\* stopTone as it would be without the cancelScheduledValues of line 40
stopToneNoCancel(st, note, t) ==
    LET logged == [st EXCEPT !.calls = Log(st, "stopTone", note)]
    IN  IF note \in DOMAIN st.oscillators
        THEN LET v  == st.oscillators[note]
                 ev == st.gains[v.gain].events
                       \o << [kind |-> "set",  value |-> CurrentValue, time |-> t],
                             [kind |-> "exp",  value |-> SilenceLevel,
                              time |-> t + ReleaseTime] >>
             IN  [logged EXCEPT
                    !.gains[v.gain].events = ev,
                    !.oscs[v.osc].stopAt   = t + ReleaseTime,
                    !.oscs[v.osc].stops    = @ + 1,
                    !.oscillators          = Remove(st.oscillators, note)]
        ELSE logged

\* stopTone as it would be without the osc.stop of line 44
stopToneNoStop(st, note, t) ==
    LET logged == [st EXCEPT !.calls = Log(st, "stopTone", note)]
    IN  IF note \in DOMAIN st.oscillators
        THEN LET v  == st.oscillators[note]
                 ev == cancelScheduledValues(st.gains[v.gain].events, t)
                       \o << [kind |-> "set",  value |-> CurrentValue, time |-> t],
                             [kind |-> "exp",  value |-> SilenceLevel,
                              time |-> t + ReleaseTime] >>
             IN  [logged EXCEPT
                    !.gains[v.gain].events = ev,
                    !.oscillators          = Remove(st.oscillators, note)]
        ELSE logged

\* AudioEngine.stopTone
stopTone(st, note, t) ==
    LET logged == [st EXCEPT !.calls = Log(st, "stopTone", note)]
    IN  IF note \in DOMAIN st.oscillators
        THEN LET v  == st.oscillators[note]
                 ev == cancelScheduledValues(st.gains[v.gain].events, t)
                       \o << [kind |-> "set",  value |-> CurrentValue, time |-> t],
                             [kind |-> "exp",  value |-> SilenceLevel,
                              time |-> t + ReleaseTime] >>
             IN  [logged EXCEPT
                    !.gains[v.gain].events = ev,
                    !.oscs[v.osc].stopAt   = t + ReleaseTime,
                    !.oscs[v.osc].stops    = @ + 1,
                    !.oscillators          = Remove(st.oscillators, note)]
        ELSE logged

\* playTone as it would be without the teardown of line 15
playToneNoTeardown(st, note, frequency, t) ==
    LET s1  == [st EXCEPT !.calls = Log(st, "playTone", note)]
        id  == Len(s1.oscs) + 1
        osc == [type |-> "triangle", frequency |-> frequency, for |-> note,
                startAt |-> t, stopAt |-> NoStop, stops |-> 0]
        gn  == [events |-> << [kind |-> "set", value |-> 0, time |-> t],
                              [kind |-> "lin", value |-> FullLevel,
                               time |-> t + AttackTime],
                              [kind |-> "exp", value |-> SustainLevel,
                               time |-> t + DecayTime] >>,
                for |-> note]
    IN  [s1 EXCEPT
           !.oscs        = Append(s1.oscs, osc),
           !.gains       = Append(s1.gains, gn),
           !.oscillators = Put(s1.oscillators, note, [osc |-> id, gain |-> id])]

\* AudioEngine.playTone
playTone(st, note, frequency, t) ==
    LET s0  == [st EXCEPT !.calls = Log(st, "playTone", note)]
        s1  == IF note \in DOMAIN s0.oscillators THEN stopTone(s0, note, t) ELSE s0
        id  == Len(s1.oscs) + 1
        osc == [type |-> "triangle", frequency |-> frequency, for |-> note,
                startAt |-> t, stopAt |-> NoStop, stops |-> 0]
        gn  == [events |-> << [kind |-> "set", value |-> 0, time |-> t],
                              [kind |-> "lin", value |-> FullLevel,
                               time |-> t + AttackTime],
                              [kind |-> "exp", value |-> SustainLevel,
                               time |-> t + DecayTime] >>,
                for |-> note]
    IN  [s1 EXCEPT
           !.oscs        = Append(s1.oscs, osc),
           !.gains       = Append(s1.gains, gn),
           !.oscillators = Put(s1.oscillators, note, [osc |-> id, gain |-> id])]

\* AudioEngine.resume; the log gets the call itself and, when it is made, the
\* call of ctx.resume()
resume(st) ==
    LET called == Note(st, "resume", "")
    IN  IF called.ctxState = "suspended"
        THEN [Note(called, "ctx.resume", "") EXCEPT !.resuming = TRUE]
        ELSE called

\* getFrequency as it would be with the distance counted from C, without the
\* index of A
getFrequencyFromC(note, oct) ==
    LET noteIndex == indexOf(note)
        semitonesFromA4 == (oct - 4) * 12 + noteIndex
    IN  [base |-> A4Hz, semitones |-> semitonesFromA4]

\* PianoUI.getFrequency: the result 440 * 2^(semitones/12) is kept as the
\* pair of its base and the exponent's numerator
getFrequency(note, oct) ==
    LET noteIndex == indexOf(note)
        semitonesFromA4 == (oct - 4) * 12 + (noteIndex - A4Index)
    IN  [base |-> A4Hz, semitones |-> semitonesFromA4]

\* the number 440 * Math.pow(2, semitones / 12) where the exponent is whole,
\* which is where the floating-point result is exact; the frequencies in
\* between are irrational and stay in the form above
Hertz(f) ==
    IF f.semitones >= 0
    THEN f.base * 2 ^ (f.semitones \div 12)
    ELSE f.base \div 2 ^ ((0 - f.semitones) \div 12)

\* the loop body of PianoUI.renderPiano for one startOctave
renderPiano(startOctave) ==
    [i \in 1 .. numKeys |->
        [note    |-> NOTES[((i - 1) % 12) + 1],
         octave  |-> String(startOctave + ((i - 1) \div 12)),
         active  |-> FALSE,
         touchId |-> NoTouch]]

KeyIdentity(key) == Identity(key.note, parseInt(key.octave))

\* playKey as it would be without the engine.resume() of line 112
playKeyNoResume(st, k, t) ==
    IF k = NoKey THEN st
    ELSE LET s2   == [st EXCEPT !.keys[k].active = TRUE]
             note == s2.keys[k].note
             oct  == parseInt(s2.keys[k].octave)
             freq == getFrequency(note, oct)
         IN  playTone(s2, Identity(note, oct), freq, t)

\* PianoUI.playKey; k = NoKey stands for a null element
playKey(st, k, t) ==
    IF k = NoKey THEN st
    ELSE LET s1   == resume(st)
             s2   == [s1 EXCEPT !.keys[k].active = TRUE]
             note == s2.keys[k].note
             oct  == parseInt(s2.keys[k].octave)
             freq == getFrequency(note, oct)
         IN  playTone(s2, Identity(note, oct), freq, t)

\* stopKey as it would be without the classList.remove of line 122
stopKeyKeepsClass(st, k, t) ==
    IF k = NoKey THEN st
    ELSE LET note == st.keys[k].note
             oct  == parseInt(st.keys[k].octave)
         IN  stopTone(st, Identity(note, oct), t)

\* PianoUI.stopKey
stopKey(st, k, t) ==
    IF k = NoKey THEN st
    ELSE LET s1   == [st EXCEPT !.keys[k].active = FALSE]
             note == s1.keys[k].note
             oct  == parseInt(s1.keys[k].octave)
         IN  stopTone(s1, Identity(note, oct), t)

\* the fields a handler works on, with an empty call log
Cur == [oscillators |-> oscillators, oscs |-> oscs, gains |-> gains,
        ctxState |-> ctxState, resuming |-> resuming, keys |-> keys,
        calls |-> << >>]

Commit(st) ==
    /\ oscillators' = st.oscillators
    /\ oscs'        = st.oscs
    /\ gains'       = st.gains
    /\ ctxState'    = st.ctxState
    /\ resuming'    = st.resuming
    /\ keys'        = st.keys
    /\ calls'       = st.calls

\* ------------------------------------------------------------- environment
PhysOrder == <<"a", "k", "z", "w", "s", "d">>
PhysKeys  == { PhysOrder[i] : i \in 1 .. MaxPhys }
TouchIds  == 0 .. MaxTouch - 1
Targets   == 1 .. MaxTarget
KeyUpState == [down |-> FALSE, ident |-> "", triggers |-> 0]

\* non-empty sequences of distinct touch identifiers, at most MaxBatch long
Batches(ids) ==
    { s \in UNION { [1 .. n -> ids] : n \in 1 .. MaxBatch } :
        \A i, j \in DOMAIN s : i # j => s[i] # s[j] }

\* number of playTone calls in a call log
Triggers(log) == Len(SelectSeq(log, LAMBDA c : c.op = "playTone"))

\* ------------------------------------------------------------ DOM queries
Indices == [i \in 1 .. numKeys |-> i]

\* document.querySelectorAll('.key.active'): a static list, in DOM order
querySelectorAllActive(ks) == SelectSeq(Indices, LAMBDA i : ks[i].active)

\* document.querySelector('.key[data-note=..][data-octave=..]')
querySelector(ks, note, octaveText) ==
    IF \E i \in 1 .. numKeys : ks[i].note = note /\ ks[i].octave = octaveText
    THEN CHOOSE i \in 1 .. numKeys :
           /\ ks[i].note = note /\ ks[i].octave = octaveText
           /\ \A j \in 1 .. i - 1 : ~(ks[j].note = note /\ ks[j].octave = octaveText)
    ELSE NoKey

\* the comparison as it would be if it only tested that the key carries a tag
LooseEqualsAnyTag(touchId, identifier) == touchId # NoTouch

\* key.dataset.touchId == touch.identifier (a string against a number)
LooseEquals(touchId, identifier) ==
    touchId # NoTouch /\ touchId = String(identifier)

\* ------------------------------------------------------------ handlers
\* NodeList.forEach(k => this.stopKey(k)) over a list taken beforehand
RECURSIVE stopEach(_, _, _, _)
stopEach(st, list, j, t) ==
    IF j > Len(list) THEN st
    ELSE stopEach(stopKey(st, list[j], t), list, j + 1, t)

\* forEach over a live collection, which shrinks as keys lose the class
RECURSIVE stopEachLive(_, _, _)
stopEachLive(st, j, t) ==
    LET list == querySelectorAllActive(st.keys)
    IN  IF j > Len(list) THEN st
        ELSE stopEachLive(stopKey(st, list[j], t), j + 1, t)

\* the mouseup handler as it would be over getElementsByClassName('active')
mouseupHandlerLive(st, t) == stopEachLive(st, 1, t)

\* the window mouseup handler, without the isDragging assignment
mouseupHandler(st, t) == stopEach(st, querySelectorAllActive(st.keys), 1, t)

\* the touchstart loop over e.changedTouches
RECURSIVE touchstartHandler(_, _, _, _)
touchstartHandler(st, changed, i, t) ==
    IF i > Len(changed) THEN st
    ELSE LET touch  == changed[i]
             target == touch.target
             s1 == IF target # NoKey
                   THEN [Note(playKey(st, target, t), "set touchId",
                              KeyIdentity(st.keys[target])) EXCEPT
                           !.keys[target].touchId = String(touch.identifier)]
                   ELSE st
         IN  touchstartHandler(s1, changed, i + 1, t)

\* activeKeys.forEach(...) of the touchend handler, for one touch
RECURSIVE stopTagged(_, _, _, _, _)
stopTagged(st, list, j, identifier, t) ==
    IF j > Len(list) THEN st
    ELSE LET k  == list[j]
             s1 == IF LooseEquals(st.keys[k].touchId, identifier)
                   THEN [Note(stopKey(st, k, t), "delete touchId",
                              KeyIdentity(st.keys[k])) EXCEPT
                           !.keys[k].touchId = NoTouch]
                   ELSE st
         IN  stopTagged(s1, list, j + 1, identifier, t)

\* the touchend loop over e.changedTouches
RECURSIVE touchendHandler(_, _, _, _)
touchendHandler(st, changed, i, t) ==
    IF i > Len(changed) THEN st
    ELSE touchendHandler(
            stopTagged(st, querySelectorAllActive(st.keys), 1, changed[i], t),
            changed, i + 1, t)

\* the identity a keyboard event resolves to: <<targetNote, targetOctave>>
Resolve(noteBase, oct) ==
    IF noteBase = "C2" THEN << "C", oct + 1 >> ELSE << noteBase, oct >>

\* the keydown handler as it would be without the e.repeat test of line 209
keydownHandlerRepeats(st, key, repeat, oct, t) ==
    LET noteBase == KeyMapLookup(toLowerCase(key))
    IN  IF noteBase = Undefined THEN st
        ELSE LET r == Resolve(noteBase, oct)
                 k == querySelector(st.keys, r[1], String(r[2]))
             IN  playKey(st, k, t)

\* the window keydown handler
keydownHandler(st, key, repeat, oct, t) ==
    IF repeat THEN Note(st, "return: repeat", "")
    ELSE LET noteBase == KeyMapLookup(toLowerCase(key))
         IN  IF noteBase = Undefined THEN st
             ELSE LET r == Resolve(noteBase, oct)
                      k == querySelector(st.keys, r[1], String(r[2]))
                  IN  playKey(st, k, t)

\* the keyup handler as it would be if it also released the note's voices of
\* the octave below and the octave above the displayed one
keyupHandlerNearOctaves(st, key, oct, t) ==
    LET noteBase == KeyMapLookup(toLowerCase(key))
    IN  IF noteBase = Undefined THEN st
        ELSE LET r  == Resolve(noteBase, oct)
                 k  == querySelector(st.keys, r[1], String(r[2]))
                 s1 == stopKey(st, k, t)
                 s2 == stopTone(s1, Identity(r[1], r[2] - 1), t)
             IN  stopTone(s2, Identity(r[1], r[2] + 1), t)

\* the window keyup handler
keyupHandler(st, key, oct, t) ==
    LET noteBase == KeyMapLookup(toLowerCase(key))
    IN  IF noteBase = Undefined THEN st
        ELSE LET r == Resolve(noteBase, oct)
                 k == querySelector(st.keys, r[1], String(r[2]))
             IN  stopKey(st, k, t)

\* PianoUI.updateOctaveDisplay
updateOctaveDisplay(oct) == "Octave: " \o String(oct)

\* no fetch event has been answered yet
NoResponse == [request |-> "", source |-> "none", cache |-> ""]

\* the worker script has been parsed and none of its handlers has run; the
\* origin has no cache yet
WorkerParsed ==
    /\ swState    = "parsed"
    /\ caches     = << >>
    /\ cacheNames = {}
    /\ deleting   = {}
    /\ response   = NoResponse

\* the page after new PianoUI()
PageInit ==
    /\ oscillators  = << >>
    /\ oscs         = << >>
    /\ gains        = << >>
    /\ ctxState     = "suspended"
    /\ resuming     = FALSE
    /\ masterVolume = InitialVolume
    /\ now          = 0
    /\ octave       = StartOctave
    /\ readout      = ""
    /\ keys         = renderPiano(StartOctave)
    /\ isDragging   = FALSE
    /\ buttonDown   = FALSE
    /\ pointerAt    = NoKey
    /\ touches      = [i \in 0 .. MaxTouch - 1 |-> "up"]
    /\ physical     = [k \in PhysKeys |-> KeyUpState]
    /\ calls        = << >>

Init == PageInit /\ WorkerParsed

\* --------------------------------------------------------------- actions
Room(n) == Len(oscs) + n <= MaxNodes

MouseDown ==
    /\ ~buttonDown
    /\ pointerAt = NoKey \/ Room(1)
    /\ buttonDown' = TRUE
    /\ IF pointerAt # NoKey
       THEN /\ Commit(playKey(Cur, pointerAt, now))
            /\ isDragging' = TRUE
       ELSE /\ Commit(Cur)
            /\ UNCHANGED isDragging
    /\ UNCHANGED << workerVars, masterVolume, now, octave, readout, pointerAt, touches, physical >>

MouseUp ==
    /\ buttonDown
    /\ buttonDown' = FALSE
    /\ isDragging' = FALSE
    /\ Commit(mouseupHandler(Cur, now))
    /\ UNCHANGED << workerVars, masterVolume, now, octave, readout, pointerAt, touches, physical >>

\* the mouseover listener as it would be without the isDragging test
MouseOverAlways(k) ==
    /\ pointerAt = NoKey
    /\ Room(1)
    /\ pointerAt' = k
    /\ Commit(playKey(Cur, k, now))
    /\ UNCHANGED << workerVars, masterVolume, now, octave, readout, isDragging, buttonDown,
                    touches, physical >>

MouseOver(k) ==
    /\ pointerAt = NoKey
    /\ ~isDragging \/ Room(1)
    /\ pointerAt' = k
    /\ Commit(IF isDragging THEN playKey(Cur, k, now) ELSE Cur)
    /\ UNCHANGED << workerVars, masterVolume, now, octave, readout, isDragging, buttonDown,
                    touches, physical >>

MouseOut ==
    /\ pointerAt # NoKey
    /\ pointerAt' = NoKey
    /\ Commit(IF isDragging THEN stopKey(Cur, pointerAt, now) ELSE Cur)
    /\ UNCHANGED << workerVars, masterVolume, now, octave, readout, isDragging, buttonDown,
                    touches, physical >>

TouchStart(ids, where) ==
    LET changed == [i \in DOMAIN ids |-> [identifier |-> ids[i], target |-> where[i]]]
    IN  /\ \A i \in DOMAIN ids : touches[ids[i]] = "up"
        /\ Room(Cardinality({ i \in DOMAIN ids : where[i] # NoKey }))
        /\ Commit(touchstartHandler(Cur, changed, 1, now))
        /\ touches' = [x \in TouchIds |->
                         IF \E i \in DOMAIN ids : ids[i] = x
                         THEN LET i == CHOOSE i \in DOMAIN ids : ids[i] = x
                              IN  IF where[i] = NoKey THEN "nokey"
                                  ELSE KeyIdentity(keys[where[i]])
                         ELSE touches[x]]
        /\ UNCHANGED << workerVars, masterVolume, now, octave, readout, isDragging, buttonDown,
                        pointerAt, physical >>

TouchEnd(ids) ==
    /\ \A i \in DOMAIN ids : touches[ids[i]] # "up"
    /\ Commit(touchendHandler(Cur, ids, 1, now))
    /\ touches' = [x \in TouchIds |->
                     IF \E i \in DOMAIN ids : ids[i] = x THEN "up" ELSE touches[x]]
    /\ UNCHANGED << workerVars, masterVolume, now, octave, readout, isDragging, buttonDown,
                    pointerAt, physical >>

KeyDown(p, shift, repeat) ==
    LET key == IF shift THEN toUpperCase(p) ELSE p
        st  == keydownHandler(Cur, key, repeat, octave, now)
        nb  == KeyMapLookup(p)
        r   == Resolve(nb, octave)
    IN  /\ physical[p].down = repeat
        /\ repeat \/ nb = Undefined \/ Room(1)
        /\ Commit(st)
        /\ physical' = [physical EXCEPT ![p] =
                          IF repeat
                          THEN [@ EXCEPT !.triggers = @ + Triggers(st.calls)]
                          ELSE [down |-> TRUE,
                                ident |-> IF nb = Undefined THEN ""
                                          ELSE Identity(r[1], r[2]),
                                triggers |-> Triggers(st.calls)]]
        /\ UNCHANGED << workerVars, masterVolume, now, octave, readout, isDragging, buttonDown,
                        pointerAt, touches >>

KeyUp(p, shift) ==
    LET key == IF shift THEN toUpperCase(p) ELSE p
    IN  /\ physical[p].down
        /\ Commit(keyupHandler(Cur, key, octave, now))
        /\ physical' = [physical EXCEPT ![p] = KeyUpState]
        /\ UNCHANGED << workerVars, masterVolume, now, octave, readout, isDragging, buttonDown,
                        pointerAt, touches >>

\* octave-up as it would be if it released the active keys before re-rendering
OctaveUpReleasing ==
    /\ IF octave < MaxOctave
       THEN /\ octave'  = octave + 1
            /\ readout' = updateOctaveDisplay(octave + 1)
            /\ Commit([mouseupHandler(Cur, now) EXCEPT !.keys = renderPiano(octave + 1)])
       ELSE /\ Commit(Cur)
            /\ UNCHANGED << octave, readout >>
    /\ UNCHANGED << workerVars, masterVolume, now, isDragging, buttonDown, pointerAt, touches,
                    physical >>

OctaveUp ==
    /\ IF octave < MaxOctave
       THEN /\ octave'  = octave + 1
            /\ readout' = updateOctaveDisplay(octave + 1)
            /\ Commit([Cur EXCEPT !.keys = renderPiano(octave + 1)])
       ELSE /\ Commit(Cur)
            /\ UNCHANGED << octave, readout >>
    /\ UNCHANGED << workerVars, masterVolume, now, isDragging, buttonDown, pointerAt, touches,
                    physical >>

\* octave-down as it would be with the test of line 137 off by one
OctaveDownOffByOne ==
    /\ IF octave >= MinOctave
       THEN /\ octave'  = octave - 1
            /\ readout' = updateOctaveDisplay(octave - 1)
            /\ Commit([Cur EXCEPT !.keys = renderPiano(octave - 1)])
       ELSE /\ Commit(Cur)
            /\ UNCHANGED << octave, readout >>
    /\ UNCHANGED << workerVars, masterVolume, now, isDragging, buttonDown, pointerAt, touches,
                    physical >>

OctaveDown ==
    /\ IF octave > MinOctave
       THEN /\ octave'  = octave - 1
            /\ readout' = updateOctaveDisplay(octave - 1)
            /\ Commit([Cur EXCEPT !.keys = renderPiano(octave - 1)])
       ELSE /\ Commit(Cur)
            /\ UNCHANGED << octave, readout >>
    /\ UNCHANGED << workerVars, masterVolume, now, isDragging, buttonDown, pointerAt, touches,
                    physical >>

\* AudioEngine.setVolume, from the slider's oninput
SetVolume(text) ==
    /\ masterVolume' = ToNumber(text)
    /\ Commit(Cur)
    /\ UNCHANGED << workerVars, now, octave, readout, isDragging, buttonDown,
                    pointerAt, touches, physical >>

\* the promise of ctx.resume() settles
ContextResumed ==
    /\ resuming /\ ctxState = "suspended"
    /\ Commit([Cur EXCEPT !.ctxState = "running", !.resuming = FALSE])
    /\ UNCHANGED << workerVars, masterVolume, now, octave, readout, isDragging, buttonDown,
                    pointerAt, touches, physical >>

\* the audio clock advances while the context runs
Tick ==
    /\ ctxState = "running"
    /\ now + TickStep <= MaxTime
    /\ now' = now + TickStep
    /\ Commit(Cur)
    /\ UNCHANGED << workerVars, masterVolume, octave, readout, isDragging, buttonDown,
                    pointerAt, touches, physical >>

PointerNext ==
    \/ MouseDown
    \/ MouseUp
    \/ \E k \in Targets : MouseOver(k)
    \/ MouseOut

TouchNext ==
    \/ \E ids \in Batches(TouchIds) :
         \E where \in [DOMAIN ids -> Targets \cup {NoKey}] : TouchStart(ids, where)
    \/ \E ids \in Batches(TouchIds) : TouchEnd(ids)

KeyboardNext ==
    \/ \E p \in PhysKeys, shift \in BOOLEAN, repeat \in BOOLEAN : KeyDown(p, shift, repeat)
    \/ \E p \in PhysKeys, shift \in BOOLEAN : KeyUp(p, shift)

OctaveNext ==
    \/ OctaveUp
    \/ OctaveDown

VolumeNext == \E text \in SliderValues : SetVolume(text)

AudioNext ==
    \/ ContextResumed
    \/ Tick

\* the whole page: every input source, the controls and the audio clock.
\* Its state space is the product of the sources; the properties below are
\* checked under the narrower specifications that follow, each of which
\* takes its actions from this one.
Next ==
    \/ PointerNext
    \/ TouchNext
    \/ KeyboardNext
    \/ OctaveNext
    \/ VolumeNext
    \/ AudioNext

Spec == Init /\ [][Next]_vars

\* ------------------------------------------------- the engine on its own
\* identities and frequencies of the keys rendered at load
EngineKeys == { k \in 1 .. numKeys : k <= MaxTarget }

\* engine.playTone(identity, frequency) called directly
Trigger(k) ==
    LET key == renderPiano(StartOctave)[k]
    IN  /\ Room(1)
        /\ Commit(playTone(Cur, KeyIdentity(key),
                           getFrequency(key.note, parseInt(key.octave)), now))
        /\ UNCHANGED << workerVars, masterVolume, now, octave, readout, isDragging, buttonDown,
                        pointerAt, touches, physical >>

\* engine.stopTone(identity) called directly
Release(k) ==
    /\ Commit(stopTone(Cur, KeyIdentity(renderPiano(StartOctave)[k]), now))
    /\ UNCHANGED << workerVars, masterVolume, now, octave, readout, isDragging, buttonDown,
                    pointerAt, touches, physical >>

\* engine.resume() called directly
Resume ==
    /\ Commit(resume(Cur))
    /\ UNCHANGED << workerVars, masterVolume, now, octave, readout, isDragging, buttonDown,
                    pointerAt, touches, physical >>

EngineNext ==
    \/ \E k \in EngineKeys : Trigger(k)
    \/ \E k \in EngineKeys : Release(k)
    \/ Resume
    \/ VolumeNext
    \/ AudioNext

EngineSpec == Init /\ [][EngineNext]_vars

\* the three input sources against one rendering of the keys
InputNext ==
    \/ PointerNext
    \/ TouchNext
    \/ KeyboardNext
    \/ AudioNext

InputSpec == Init /\ [][InputNext]_vars

\* the octave and volume controls while keys are played from the keyboard
OctaveSpecNext ==
    \/ KeyboardNext
    \/ OctaveNext
    \/ VolumeNext
    \/ AudioNext

OctaveSpec == Init /\ [][OctaveSpecNext]_vars

\* one key of the keyboard, in any octave the controls can have set, pressed
\* and let go with the mouse
FrequencyInit ==
    /\ oscillators  = << >>
    /\ oscs         = << >>
    /\ gains        = << >>
    /\ ctxState     = "suspended"
    /\ resuming     = FALSE
    /\ masterVolume = InitialVolume
    /\ now          = 0
    /\ octave       \in MinOctave .. MaxOctave
    /\ readout      = IF octave = StartOctave THEN "" ELSE updateOctaveDisplay(octave)
    /\ keys         = renderPiano(octave)
    /\ isDragging   = FALSE
    /\ buttonDown   = FALSE
    /\ pointerAt    \in 1 .. numKeys
    /\ touches      = [i \in 0 .. MaxTouch - 1 |-> "up"]
    /\ physical     = [k \in PhysKeys |-> KeyUpState]
    /\ calls        = << >>
    /\ WorkerParsed

FrequencyNext ==
    \/ MouseDown
    \/ MouseUp
    \/ AudioNext

FrequencySpec == FrequencyInit /\ [][FrequencyNext]_vars

\* ------------------------------------------------------ the service worker
Range(seq) == { seq[i] : i \in DOMAIN seq }

\* names under which earlier versions of the worker may have left a cache
OldOrder == << "my-pwa-cache-v0", "my-pwa-cache", "pwa-cache-beta", "static-v0" >>
OldNames == { OldOrder[i] : i \in 1 .. MaxOld }

\* what such a cache holds
OldContent == { "/", "index.html", "script.js" }

\* the requests the page makes: the precached urls and one that is not
Requests == Range(urlsToCache) \cup { "script.js" }

\* caches.match(request): the name of a cache holding a match, "" for none
match(cs, request) ==
    IF \E n \in DOMAIN cs : request \in cs[n]
    THEN CHOOSE n \in DOMAIN cs : request \in cs[n]
    ELSE ""

\* the install event: caches.open(CACHE_NAME) creates the cache if need be
Install ==
    /\ swState = "parsed"
    /\ swState' = "installing"
    /\ caches' = IF CACHE_NAME \in DOMAIN caches THEN caches
                 ELSE Put(caches, CACHE_NAME, {})
    /\ UNCHANGED << pageVars, cacheNames, deleting, response >>

\* cache.addAll(urlsToCache) settles: all urls are stored, or none is and
\* the installation fails
InstallSettled(ok) ==
    /\ swState = "installing"
    /\ IF ok
       THEN /\ caches' = [caches EXCEPT ![CACHE_NAME] = @ \cup Range(urlsToCache)]
            /\ swState' = "installed"
       ELSE /\ swState' = "redundant"
            /\ UNCHANGED caches
    /\ UNCHANGED << pageVars, cacheNames, deleting, response >>

\* the activate handler as it would be without the test of line 41
ToDeleteAll(names) == names

\* the names for which the map callback of the activate handler calls
\* caches.delete
ToDelete(names) == { cacheName \in names : cacheName # CACHE_NAME }

\* the activate event: caches.keys() resolves and the deletes are issued
Activate ==
    /\ swState = "installed"
    /\ swState' = "activating"
    /\ cacheNames' = DOMAIN caches
    /\ deleting' = ToDelete(DOMAIN caches)
    /\ UNCHANGED << pageVars, caches, response >>

\* one caches.delete(cacheName) settles
DeleteSettled(cacheName) ==
    /\ swState = "activating"
    /\ cacheName \in deleting
    /\ caches' = Remove(caches, cacheName)
    /\ deleting' = deleting \ { cacheName }
    /\ UNCHANGED << pageVars, swState, cacheNames, response >>

\* Promise.all settles and with it the promise given to waitUntil
Activated ==
    /\ swState = "activating"
    /\ deleting = {}
    /\ swState' = "activated"
    /\ UNCHANGED << pageVars, caches, cacheNames, deleting, response >>

\* the fetch handler: the cached response if there is one, else the network
fetchHandler(cs, request, online) ==
    LET hit == match(cs, request)
    IN  IF hit # ""
        THEN [request |-> request, source |-> "cache", cache |-> hit]
        ELSE [request |-> request,
              source  |-> IF online THEN "network" ELSE "network error",
              cache   |-> ""]

\* a fetch event, which only an activated worker receives
Fetch(request, online) ==
    /\ swState = "activated"
    /\ response' = fetchHandler(caches, request, online)
    /\ UNCHANGED << pageVars, swState, caches, cacheNames, deleting >>

\* what the origin's CacheStorage can hold when the worker is registered:
\* caches of earlier versions, and an empty cache of this version left by an
\* installation that failed
LeftBehind ==
    { [n \in S |-> IF n = CACHE_NAME THEN {} ELSE OldContent] :
        S \in SUBSET (OldNames \cup { CACHE_NAME }) }

WorkerInit ==
    /\ PageInit
    /\ swState    = "parsed"
    /\ caches     \in LeftBehind
    /\ cacheNames = {}
    /\ deleting   = {}
    /\ response   = NoResponse

WorkerNext ==
    \/ Install
    \/ \E ok \in BOOLEAN : InstallSettled(ok)
    \/ Activate
    \/ \E cacheName \in OldNames \cup { CACHE_NAME } : DeleteSettled(cacheName)
    \/ Activated
    \/ \E request \in Requests, online \in BOOLEAN : Fetch(request, online)

WorkerSpec == WorkerInit /\ [][WorkerNext]_vars

\* ------------------------------------------------------------ properties
\* nodes created for identity n on which stop was never called
LiveNodes(n) == { i \in DOMAIN oscs : oscs[i].for = n /\ oscs[i].stopAt = NoStop }

\* the source is started and its stop, if any, has not yet taken effect
Sounding(i) == oscs[i].stopAt = NoStop \/ now < oscs[i].stopAt

\* nodes of identity n that were released and are still fading out
Fading(n) ==
    { i \in DOMAIN oscs : oscs[i].for = n /\ oscs[i].stopAt # NoStop /\ now < oscs[i].stopAt }

EverPlayed == { oscs[i].for : i \in DOMAIN oscs }

\* C1: after any sequence of playTone and stopTone calls every identity has at
\* most one live voice, the one registered in the map; an identity that was
\* just triggered, also for the second time running, has exactly one.
C1_OneLiveVoicePerIdentity ==
    /\ \A n \in EverPlayed \cup DOMAIN oscillators :
         /\ Cardinality(LiveNodes(n)) <= 1
         /\ n \in DOMAIN oscillators => LiveNodes(n) = { oscillators[n].osc }
         /\ n \notin DOMAIN oscillators => LiveNodes(n) = {}
    /\ \A i \in DOMAIN calls :
         calls[i].op = "playTone" =>
            /\ calls[i].note \in DOMAIN oscillators
            /\ Cardinality(LiveNodes(calls[i].note)) = 1

\* an identity with a live voice was triggered again
C1_TriggeredTwice ==
    \E i \in DOMAIN calls :
       /\ calls[i].op = "playTone" /\ calls[i].live
       /\ Cardinality({ j \in DOMAIN oscs : oscs[j].for = calls[i].note }) >= 2
       /\ calls[i].note \in DOMAIN oscillators

\* C2: right after a trigger of an identity that had a live voice, no other
\* source of that identity is still sounding: the displaced source has
\* already stopped, it is not left to a stop scheduled for later.
C2_RetriggerStopsOldAtOnce ==
    \A i \in DOMAIN calls :
       (calls[i].op = "playTone" /\ calls[i].live) =>
          \A j \in DOMAIN oscs :
             (oscs[j].for = calls[i].note /\ j # oscillators[calls[i].note].osc)
                => ~Sounding(j)

\* C5: a stopTone for an identity with no live voice raises nothing and
\* changes neither the map, nor any node or scheduled stop, nor the volume.
C5_ReleaseAbsentIsNoOp ==
    [][ (calls' # << >> /\ calls'[1].op = "stopTone" /\ ~calls'[1].live)
          => /\ Len(calls') = 1
             /\ UNCHANGED << oscillators, oscs, gains, masterVolume, ctxState,
                             resuming, now >> ]_vars

\* stopTone has just been called for an identity with no live voice
C5_ReleasedAbsent ==
    /\ Len(calls) = 1 /\ calls[1].op = "stopTone" /\ ~calls[1].live
    /\ oscs # << >>

\* C6: stopTone on a live voice removes the identity from the map in the same
\* step and schedules the source's stop at the end of the release window; a
\* playTone of an identity whose earlier source is still fading allocates a
\* fresh pair and leaves every earlier node as it was.
C6_ReleaseThenFreshVoice ==
    [][ /\ (calls' # << >> /\ calls'[1].op = "stopTone" /\ calls'[1].live)
           => LET n == calls'[1].note
                  v == oscillators[n]
              IN  /\ n \notin DOMAIN oscillators'
                  /\ oscs'[v.osc].stopAt = now + ReleaseTime
                  /\ oscs'[v.osc].stops = 1
                  /\ Len(oscs') = Len(oscs)
        /\ (calls' # << >> /\ calls'[1].op = "playTone" /\ ~calls'[1].live
              /\ Fading(calls'[1].note) # {})
           => LET n == calls'[1].note
              IN  /\ Len(oscs') = Len(oscs) + 1 /\ Len(gains') = Len(gains) + 1
                  /\ oscillators'[n] = [osc |-> Len(oscs'), gain |-> Len(gains')]
                  /\ \A i \in DOMAIN oscs : oscs'[i] = oscs[i] /\ gains'[i] = gains[i]
      ]_vars

\* an identity was triggered while its released source was still fading
C6_TriggeredDuringFade ==
    /\ Len(calls) = 1 /\ calls[1].op = "playTone" /\ ~calls[1].live
    /\ \E j \in Fading(calls[1].note) :
          /\ j < oscillators[calls[1].note].osc
          /\ oscs[j].stops = 1
          /\ oscs[oscillators[calls[1].note].osc].stopAt = NoStop

\* identities an input source is holding down
HeldByMouse ==
    IF isDragging /\ buttonDown /\ pointerAt # NoKey
    THEN { KeyIdentity(keys[pointerAt]) } ELSE {}

HeldByTouch == { touches[x] : x \in TouchIds } \ { "up", "nokey" }

HeldByKeyboard ==
    { physical[p].ident : p \in { q \in PhysKeys : physical[q].down /\ physical[q].ident # "" } }

Held == HeldByMouse \cup HeldByTouch \cup HeldByKeyboard

\* C3: every identity that some input source holds down has exactly one live
\* voice in the map, whatever the order of mouse, touch and keyboard events.
C3_HeldIdentityHasVoice ==
    \A n \in Held : n \in DOMAIN oscillators /\ Cardinality(LiveNodes(n)) = 1

\* C4: once no input source holds any identity, no voice is left in the map.
C4_NoStuckNotes == (Held = {}) => (DOMAIN oscillators = {})

\* touch points that went down, and that went up, in a step
Started == { x \in TouchIds : touches[x] = "up" /\ touches'[x] # "up" }
Ended   == { x \in TouchIds : touches[x] # "up" /\ touches'[x] = "up" }

\* C7: touch points that start on keys give each key identity a live voice of
\* its own and leave the other voices alone; touch points that end release
\* exactly the voices of the active keys tagged with their identifiers.
C7_TouchesAreIndependent ==
    [][ /\ Started # {} =>
             LET hit == { touches'[x] : x \in Started } \ { "nokey" }
             IN  /\ hit \subseteq DOMAIN oscillators'
                 /\ \A n \in hit :
                       /\ oscillators'[n].osc > Len(oscs)
                       /\ oscs'[oscillators'[n].osc].stopAt = NoStop
                       /\ oscs'[oscillators'[n].osc].for = n
                 /\ \A n \in DOMAIN oscillators \ hit :
                       n \in DOMAIN oscillators' /\ oscillators'[n] = oscillators[n]
        /\ Ended # {} =>
             LET gone == { KeyIdentity(keys[k]) :
                             k \in { j \in 1 .. numKeys :
                                       /\ keys[j].active
                                       /\ \E x \in Ended : keys[j].touchId = String(x) } }
             IN  /\ DOMAIN oscillators' = DOMAIN oscillators \ gone
                 /\ \A n \in DOMAIN oscillators' : oscillators'[n] = oscillators[n]
      ]_vars

\* of two touch points on two keys one has ended and the other still sounds
C7_OneOfTwoTouchesEnded ==
    \E x, y \in TouchIds :
       /\ x # y /\ touches[x] = "up" /\ touches[y] \notin { "up", "nokey" }
       /\ touches[y] \in DOMAIN oscillators
       /\ Len(calls) = 2
       /\ calls[1].op = "stopTone" /\ calls[1].live /\ calls[1].note # touches[y]
       /\ calls[2].op = "delete touchId"
       /\ \E k \in 1 .. numKeys :
            /\ KeyIdentity(keys[k]) = touches[y]
            /\ keys[k].active /\ keys[k].touchId = String(y)

\* C8: a key-down flagged as a repeat calls no trigger and changes neither the
\* map nor a node nor a key's active flag; a mapped physical key that is held
\* has had exactly one trigger since it went down.
C8_RepeatNeverTriggers ==
    [][ /\ (\E p \in PhysKeys, shift \in BOOLEAN : KeyDown(p, shift, TRUE))
             => /\ UNCHANGED << oscillators, oscs, gains, keys >>
                /\ Triggers(calls') = 0
        /\ \A p \in PhysKeys :
             (physical'[p].down /\ KeyMapLookup(p) # Undefined)
                => physical'[p].triggers = 1 ]_vars

\* a repeat has just arrived for a held key that sounds from its one trigger
C8_RepeatArrived ==
    /\ calls = << [op |-> "return: repeat", note |-> "", live |-> FALSE] >>
    /\ \E p \in PhysKeys :
          /\ physical[p].down /\ physical[p].triggers = 1
          /\ physical[p].ident \in DOMAIN oscillators

ActiveKeys == { k \in 1 .. numKeys : keys[k].active }

\* C9: the mouseup handler leaves no rendered key active, no identity of a key
\* that was active in the map, and the pointer idle.
C9_PointerUpReleasesAll ==
    [][ (buttonDown /\ ~buttonDown')
          => /\ \A k \in 1 .. numKeys : ~keys'[k].active
             /\ \A k \in ActiveKeys : KeyIdentity(keys[k]) \notin DOMAIN oscillators'
             /\ ~isDragging' ]_vars

\* a pointer-up has just released two active keys
C9_TwoKeysReleased ==
    /\ ~buttonDown /\ ~isDragging /\ ActiveKeys = {}
    /\ Len(calls) = 2
    /\ \A i \in DOMAIN calls : calls[i].op = "stopTone" /\ calls[i].live
    /\ calls[1].note # calls[2].note
    /\ \A i \in DOMAIN calls : calls[i].note \notin DOMAIN oscillators

\* C10: an octave-up or octave-down action changes neither the map nor any
\* node and calls nothing on the engine; when it is not refused it replaces
\* the rendered keys by the rendering of the new octave.
C10_OctaveChangeKeepsVoices ==
    [][ (OctaveUp \/ OctaveDown)
          => /\ UNCHANGED << oscillators, oscs, gains >>
             /\ calls' = << >>
             /\ keys' = IF octave' # octave THEN renderPiano(octave') ELSE keys ]_vars

\* a key pressed before an octave change still sounds after it
C10_VoiceSurvivedChange ==
    /\ octave # StartOctave /\ ActiveKeys = {}
    /\ \E p \in PhysKeys :
          /\ physical[p].down
          /\ physical[p].ident \in DOMAIN oscillators
          /\ oscs[oscillators[physical[p].ident].osc].stopAt = NoStop

\* C11: the base octave stays within [1, 7] under any sequence of octave-up and
\* octave-down clicks; a click that is refused (octave-up at 7, octave-down
\* at 1) changes neither the octave, nor the readout, nor the rendered keys,
\* nor anything of the engine.
C11_OctaveStaysInRange ==
    [][ /\ octave \in MinOctave .. MaxOctave
        /\ octave' \in MinOctave .. MaxOctave
        /\ ((OctaveUp /\ octave = MaxOctave) \/ (OctaveDown /\ octave = MinOctave))
             => UNCHANGED << octave, readout, keys, oscillators, oscs, gains,
                             ctxState, resuming, masterVolume, now >> ]_vars

\* the octave is at a bound, a key pressed there is still marked active and
\* the last click or slider move called nothing on the engine
C11_AtBoundWithActiveKey ==
    /\ octave \in { MinOctave, MaxOctave }
    /\ readout = updateOctaveDisplay(octave)
    /\ calls = << >>
    /\ \E p \in PhysKeys :
          /\ physical[p].down /\ physical[p].ident \in DOMAIN oscillators
          /\ \E k \in ActiveKeys : KeyIdentity(keys[k]) = physical[p].ident

\* C12: while the context is suspended a trigger is a no-op: a playTone issued
\* before ctx.resume() has settled registers no voice in the map and creates
\* no node.
C12_SuspendedTriggerIsNoOp ==
    [][ (ctxState = "suspended" /\ Triggers(calls') > 0)
          => UNCHANGED << oscillators, oscs, gains >> ]_vars

\* C13: for every pitch class and every octave 1..7, and the C of octave 8,
\* getFrequency returns 440 * 2^(d/12) with d = (octave - 4) * 12 +
\* (index of the note in NOTES - 9); (A,4) has d = 0 and gives 440, one octave
\* up adds 12 to d and doubles the frequency, so (A,5) gives 880; every
\* source a key press creates carries the frequency of its identity.
C13_FrequencyFormula ==
    LET Pitches == { << n, o >> : n \in 1 .. 12, o \in MinOctave .. MaxOctave }
                     \cup { << 1, MaxOctave + 1 >> }
        d(n, o) == (o - 4) * 12 + ((n - 1) - 9)
    IN  /\ \A p \in Pitches :
              getFrequency(NOTES[p[1]], p[2]) = [base |-> 440, semitones |-> d(p[1], p[2])]
        /\ \A p \in Pitches :
              << p[1], p[2] + 1 >> \in Pitches =>
                 /\ getFrequency(NOTES[p[1]], p[2] + 1).semitones
                      = getFrequency(NOTES[p[1]], p[2]).semitones + 12
                 /\ p[1] = 10 =>
                      Hertz(getFrequency(NOTES[p[1]], p[2] + 1))
                        = 2 * Hertz(getFrequency(NOTES[p[1]], p[2]))
        /\ getFrequency("A", 4).semitones = 0 /\ Hertz(getFrequency("A", 4)) = 440
        /\ getFrequency("A", 5).semitones = 12 /\ Hertz(getFrequency("A", 5)) = 880
        /\ \A i \in DOMAIN oscs :
              \E p \in Pitches :
                 /\ oscs[i].for = Identity(NOTES[p[1]], p[2])
                 /\ oscs[i].frequency = [base |-> 440, semitones |-> d(p[1], p[2])]

\* the A key was pressed with the keys rendered for octave 5
C13_PlayedA5 ==
    /\ octave = 5 /\ oscs # << >>
    /\ oscs[1].for = "A5" /\ oscs[1].frequency.semitones = 12
    /\ Hertz(oscs[1].frequency) = 880
    /\ "A5" \in DOMAIN oscillators

\* the identity the key-up of physical key p resolves to at the displayed octave
ResolvedNow(p) ==
    LET r == Resolve(KeyMapLookup(p), octave) IN Identity(r[1], r[2])

\* a key-up of a mapped key whose key-down resolved under another octave
\* leaves the voice of the key-down's identity in the map, untouched
MismatchedKeyUpKeepsVoice ==
    \A p \in PhysKeys :
       ( /\ physical[p].down /\ ~physical'[p].down
         /\ physical[p].ident # "" /\ physical[p].ident # ResolvedNow(p)
         /\ physical[p].ident \in DOMAIN oscillators )
       => /\ physical[p].ident \in DOMAIN oscillators'
          /\ oscillators'[physical[p].ident] = oscillators[physical[p].ident]

C15_PointerStateMachine ==
    [][ /\ (~isDragging /\ isDragging')
             => (~buttonDown /\ buttonDown' /\ pointerAt # NoKey)
        /\ (isDragging /\ ~isDragging') => (buttonDown /\ ~buttonDown')
        /\ (~buttonDown /\ buttonDown' /\ pointerAt = NoKey)
             => (isDragging' = isDragging)
        /\ (pointerAt' # pointerAt /\ ~isDragging)
             => /\ calls' = << >>
                /\ UNCHANGED << oscillators, oscs, gains, keys, isDragging >>
        /\ (pointerAt' # pointerAt /\ isDragging /\ pointerAt' # NoKey)
             => LET n == KeyIdentity(keys[pointerAt'])
                IN  /\ \E i \in DOMAIN calls' :
                          calls'[i].op = "playTone" /\ calls'[i].note = n
                    /\ Triggers(calls') = 1
                    /\ n \in DOMAIN oscillators'
                    /\ oscillators'[n].osc = Len(oscs) + 1
                    /\ keys'[pointerAt'].active
                    /\ isDragging'
        /\ (pointerAt' # pointerAt /\ isDragging /\ pointerAt' = NoKey)
             => LET n == KeyIdentity(keys[pointerAt])
                IN  /\ calls' = << [op |-> "stopTone", note |-> n,
                                     live |-> n \in DOMAIN oscillators] >>
                    /\ n \notin DOMAIN oscillators'
                    /\ ~keys'[pointerAt].active
                    /\ isDragging'
      ]_vars

\* during one drag the pointer has left the key it was pressed on, which
\* released it, and has entered another key, which triggered that one
C15_DraggedOntoSecondKey ==
    /\ isDragging /\ buttonDown /\ pointerAt # NoKey
    /\ Triggers(calls) = 1
    /\ KeyIdentity(keys[pointerAt]) \in DOMAIN oscillators
    /\ keys[pointerAt].active
    /\ \E j \in DOMAIN oscs :
          /\ oscs[j].for # KeyIdentity(keys[pointerAt])
          /\ oscs[j].stopAt # NoStop
          /\ oscs[j].for \notin DOMAIN oscillators
    /\ touches = [x \in TouchIds |-> "up"]
    /\ \A p \in PhysKeys : ~physical[p].down

\* the two automation events that stopTone called at time t schedules
ReleaseRamp(t) ==
    << [kind |-> "set", value |-> CurrentValue, time |-> t],
       [kind |-> "exp", value |-> SilenceLevel, time |-> t + ReleaseTime] >>

\* C16: on the gain of every voice that stopTone has released, be it by a
\* release or by the teardown of a re-trigger, the only automation events at
\* or after the time of the call are the release ramp, which comes last: no
\* event that playTone scheduled for that time or later is left.
C16_ReleaseCancelsPending ==
    \A i \in DOMAIN oscs :
       oscs[i].stopAt # NoStop =>
          LET t  == oscs[i].stopAt - ReleaseTime
              ev == gains[i].events
          IN  /\ Len(ev) >= 2
              /\ SubSeq(ev, Len(ev) - 1, Len(ev)) = ReleaseRamp(t)
              /\ \A j \in 1 .. Len(ev) - 2 : ev[j].time < t

\* a voice whose attack was over and whose decay was still pending has been
\* torn down by a re-trigger of its identity
C16_DecayCancelledByRetrigger ==
    /\ Len(calls) = 2
    /\ calls[1].op = "playTone" /\ calls[1].live
    /\ calls[2].op = "stopTone" /\ calls[2].live
    /\ \E i \in DOMAIN oscs :
          /\ oscs[i].for = calls[1].note /\ oscs[i].stopAt = now + ReleaseTime
          /\ oscs[i].startAt + AttackTime < now
          /\ now < oscs[i].startAt + DecayTime
          /\ gains[i].events =
                << [kind |-> "set", value |-> 0, time |-> oscs[i].startAt],
                   [kind |-> "lin", value |-> FullLevel,
                    time |-> oscs[i].startAt + AttackTime] >> \o ReleaseRamp(now)

\* positions of the log of a handler that hold operation op
At(log, op) == { i \in DOMAIN log : log[i].op = op }

\* C17: in the log of every handler of an input source each playTone comes
\* right after a call of engine.resume(), with nothing but that call's own
\* ctx.resume() in between; engine.resume() calls ctx.resume() exactly when
\* the context is suspended, and when it is not it changes nothing.
C17_ResumeBeforeEveryTrigger ==
    [][ /\ \A i \in At(calls', "playTone") :
              \E j \in At(calls', "resume") :
                 /\ j < i
                 /\ \A m \in j + 1 .. i - 1 : calls'[m].op = "ctx.resume"
        /\ \A j \in At(calls', "resume") :
              IF ctxState = "suspended"
              THEN /\ j + 1 \in At(calls', "ctx.resume")
                   /\ resuming'
              ELSE j + 1 \notin At(calls', "ctx.resume")
        /\ \A m \in At(calls', "ctx.resume") : m - 1 \in At(calls', "resume")
        /\ (ctxState # "suspended" /\ At(calls', "resume") # {})
             => UNCHANGED << ctxState, resuming >>
      ]_vars

\* a key was triggered on a running context, after a resume that called
\* nothing, next to a voice triggered while the context was still suspended
C17_TriggeredWhileRunning ==
    /\ ctxState = "running" /\ ~resuming
    /\ Len(calls) = 2
    /\ calls[1].op = "resume" /\ calls[2].op = "playTone"
    /\ Len(oscs) = 2 /\ oscs[1].startAt = 0 /\ oscs[2].startAt > 0
    /\ calls[2].note \in DOMAIN oscillators

\* C18: once the activation has completed no cache with a name other than
\* CACHE_NAME is left, those that caches.keys() had listed included, and the
\* cache named CACHE_NAME, if it was listed, is still there with the
\* precached urls; a fetch event is answered from the network only when no
\* cache holds a match for the request, and from a cache that holds one
\* otherwise.
C18_ActivatePurgesFetchPrefersCache ==
    /\ swState = "activated" =>
          /\ \A n \in DOMAIN caches : n = CACHE_NAME
          /\ \A n \in cacheNames : n # CACHE_NAME => n \notin DOMAIN caches
          /\ CACHE_NAME \in cacheNames =>
                /\ CACHE_NAME \in DOMAIN caches
                /\ Range(urlsToCache) \subseteq caches[CACHE_NAME]
    /\ response.source \in { "network", "network error" } =>
          \A n \in DOMAIN caches : response.request \notin caches[n]
    /\ response.source = "cache" =>
          /\ response.cache \in DOMAIN caches
          /\ response.request \in caches[response.cache]

\* the activation has purged two older generations and kept the current
\* one, and a request with no match in it went to the network
C18_PurgedAndMissed ==
    /\ swState = "activated"
    /\ Cardinality(cacheNames \ { CACHE_NAME }) >= 2
    /\ DOMAIN caches = { CACHE_NAME }
    /\ response.source = "network"
    /\ response.request \in OldContent

\* identity n is the identity of no key of ks that is marked active
NoActiveKey(ks, n) ==
    \A k \in 1 .. numKeys : ks[k].active => KeyIdentity(ks[k]) # n

\* C19: every rendered key that is marked active has the live voice of its
\* identity in the map; a voice in the map whose identity has no active
\* rendered key comes to be only in a step that changes the octave, which
\* re-renders the keys.
C19_ActiveKeyHasVoice ==
    [][ /\ \A k \in 1 .. numKeys :
              keys'[k].active =>
                 LET n == KeyIdentity(keys'[k])
                 IN  /\ n \in DOMAIN oscillators'
                     /\ oscs'[oscillators'[n].osc].for = n
                     /\ oscs'[oscillators'[n].osc].stopAt = NoStop
        /\ \A n \in DOMAIN oscillators' :
              ( /\ NoActiveKey(keys', n)
                /\ ~(n \in DOMAIN oscillators /\ NoActiveKey(keys, n)) )
              => octave' # octave
      ]_vars

\* after an octave change one voice has no rendered key at all while a key
\* pressed in the new rendering is active and has its voice
C19_VoiceWithoutKeyAfterChange ==
    /\ octave # StartOctave
    /\ \E k \in ActiveKeys :
          /\ KeyIdentity(keys[k]) \in DOMAIN oscillators
          /\ \E n \in DOMAIN oscillators :
                /\ n # KeyIdentity(keys[k])
                /\ NoActiveKey(keys, n)
                /\ \A j \in 1 .. numKeys : KeyIdentity(keys[j]) # n
                /\ oscs[oscillators[n].osc].stopAt = NoStop

\* source i is the one registered in the map under its identity
Registered(i) ==
    /\ oscs[i].for \in DOMAIN oscillators
    /\ oscillators[oscs[i].for].osc = i

\* C20: every source that was started either is the one registered in the
\* map under its identity, with no stop called on it, or is not registered
\* and has had stop called on it exactly once, for a time that is set; this
\* includes the source that a re-trigger displaced.
C20_StartedSourceRegisteredOrStopped ==
    \A i \in DOMAIN oscs :
       IF Registered(i)
       THEN oscs[i].stops = 0 /\ oscs[i].stopAt = NoStop
       ELSE oscs[i].stops = 1 /\ oscs[i].stopAt >= oscs[i].startAt + ReleaseTime

\* a re-trigger has displaced a source: it has its one stop scheduled and
\* the new source of the identity is the registered one
C20_DisplacedSourceStopped ==
    \E i, j \in DOMAIN oscs :
       /\ i < j /\ oscs[i].for = oscs[j].for
       /\ Registered(j) /\ ~Registered(i)
       /\ oscs[i].stops = 1 /\ oscs[i].stopAt = oscs[j].startAt + ReleaseTime
       /\ \E c \in DOMAIN calls :
             calls[c].op = "playTone" /\ calls[c].live /\ calls[c].note = oscs[j].for

====
